---- MODULE Spec2Model ----
(***************************************************************************)
(* Model of the HTTP orchestration layer of the LangGraph chatbot service: *)
(*   - the Thread Directory  (src/src/api/libs/langgraph_threads.py)       *)
(*   - the Run Dispatcher    (src/src/api/libs/langgraph_runs.py)          *)
(*   - the Message History Reader (src/src/api/libs/langgraph_messages.py) *)
(*                                                                         *)
(* Three specifications share the module:                                  *)
(*   Spec      concurrent HTTP requests against the execution service's    *)
(*             thread store (get_thread, runs, deletes);                   *)
(*   SpecRuns  one run consumed by get_stream or by set_requests;          *)
(*   SpecMsgs  one get_messages call over a message log.                   *)
(***************************************************************************)
EXTENDS Integers, Sequences, FiniteSets, TLC

\* ------------------------------------------------------------------------
\* Bounds
\* ------------------------------------------------------------------------
MaxThreads == 3
MaxReqs == 3

Users == {"u1", "u2"}
Procs == {"p1", "p2"}

\* `None` for a thread id (Optional[str]); real ids are 1..MaxThreads
NoThread == 0

\* no error raised
NoErr == <<>>

\* ------------------------------------------------------------------------
\* State of Spec
\* ------------------------------------------------------------------------
VARIABLES
    threads,    \* the execution service's thread store, in its search order
    nextId,     \* next thread id the service hands out
    nreq,       \* number of HTTP requests accepted so far
    pc,         \* per request task: the await it is suspended at
    req,        \* per request task: its locals
    calls,      \* per request task: the service calls its request issued
    lastGet     \* per user: the thread a first get_thread created, and
                \* whether the store is unchanged since

dirVars == <<threads, nextId, nreq, pc, req, calls, lastGet>>

\* ------------------------------------------------------------------------
\* State of SpecMsgs: one get_messages call
\* ------------------------------------------------------------------------
VARIABLES
    m_user,         \* user_id argument
    m_log,          \* thread_state["values"]["messages"] of the user's thread
    m_pc,           \* position of the call
    m_thread_id,    \* local thread_id
    m_i,            \* number of log entries the for loop has consumed
    set_message,    \* local set_message: the pending pair
    messages,       \* local messages: the output list
    m_bound,        \* whether the local name `messages` has been assigned
    m_ret,          \* the returned list
    m_err           \* the exception raised out of get_messages

msgVars == <<m_user, m_log, m_pc, m_thread_id, m_i, set_message, messages,
             m_bound, m_ret, m_err>>

\* ------------------------------------------------------------------------
\* State of SpecRuns: one run consumed by get_stream, set_requests or
\* get_answer
\* ------------------------------------------------------------------------
VARIABLES
    r_mode,     \* "get_stream", "set_requests" or "get_answer"
    r_pc,       \* position of the consumer
    r_started,  \* client.runs.stream has been entered: the run exists
    r_n,        \* chunks the execution stream has emitted so far
    r_chunk,    \* the chunk the generator holds: its event, len(chunk.data)
    r_di,       \* entries of chunk.data already visited
    r_out,      \* elements the get_stream generator has yielded
    r_data,     \* set_requests: the element `async for data` holds
    r_posts,    \* POSTs issued to the callback URL, with their outcomes
    chunks,     \* set_requests: local counter `chunks`
    r_err,      \* exception raised out of the consumer
    r_expect,   \* contents of the emitted entries that qualify, in order
    r_seen,     \* kinds of disqualified entries emitted with content
    r_snaps,    \* get_answer: the list `messages` of collected chunks
    r_ret,      \* get_answer: the value returned
    r_resp      \* /set_message: the HTTP response

ansVars == <<r_snaps, r_ret, r_resp>>

runVars == <<r_mode, r_pc, r_started, r_n, r_chunk, r_di, r_out, r_data,
             r_posts, chunks, r_err, r_expect, r_seen, ansVars>>

\* Compiled graph (src/src/graph.py): the node to run next, the messages
\* of the graph state, the nodes run so far, what route_message last gave
\* and the exception that ended the run
VARIABLES
    g_pc,
    g_messages,
    g_trace,
    g_route,
    g_err

graphVars == <<g_pc, g_messages, g_trace, g_route, g_err>>

\* ------------------------------------------------------------------------
\* The execution service (client.threads.*), as the library code uses it
\* ------------------------------------------------------------------------
Min(a, b) == IF a < b THEN a ELSE b

Page(s, limit, offset) == SubSeq(s, offset + 1, Min(offset + limit, Len(s)))

UserThreads(u) == SelectSeq(threads, LAMBDA t : t.user = u)

IdleThreads(u) == SelectSeq(threads, LAMBDA t : t.user = u /\ t.runs = 0)

\* the search asks for the wrong lifecycle status (busy instead of idle)
SearchIdle_busy(u, limit, offset) ==
    Page(SelectSeq(threads, LAMBDA t : t.user = u /\ t.runs > 0), limit, offset)

\* client.threads.search(metadata={"user_id": u}, status="idle", limit, offset)
SearchIdle(u, limit, offset) == Page(IdleThreads(u), limit, offset)

\* the metadata filter is missing: the page is cut from every user's threads
SearchAll_noFilter(u, limit, offset) == Page(threads, limit, offset)

\* client.threads.search(metadata={"user_id": u}, limit, offset)
SearchAll(u, limit, offset) == Page(UserThreads(u), limit, offset)

Exists(tid) == \E i \in 1..Len(threads) : threads[i].id = tid

InsertAt(s, i, e) == SubSeq(s, 1, i) \o <<e>> \o SubSeq(s, i + 1, Len(s))

Without(s, tid) == SelectSeq(s, LAMBDA t : t.id # tid)

Bump(s, tid, d) ==
    [i \in 1..Len(s) |->
        IF s[i].id = tid THEN [s[i] EXCEPT !.runs = @ + d] ELSE s[i]]

\* ------------------------------------------------------------------------
\* Request locals
\* ------------------------------------------------------------------------
Ops == {"set_message", "get_threads", "delete_thread", "delete_threads"}

SentOps == {"sent_message"}

FirstPc(op) ==
    CASE op \in {"set_message", "sent_message"} -> "gt_search"
      [] op = "delete_thread" -> "dt_search"
      [] OTHER -> "gts_page"

HTTPException(detail) == <<"HTTPException", 500, detail>>

MessageModel(answer, thread_id) == [answer |-> answer, thread_id |-> thread_id]

NoResp == [status |-> 0, content |-> <<>>]

NoReq == [op |-> "none", user |-> "u1", thread_id |-> NoThread,
          result |-> "none", err |-> NoErr,
          threads_ids |-> <<>>, offset |-> 0, limit |-> 1, di |-> 1,
          rid |-> 0, userHad |-> 0, idleHad |-> 0,
          prevFresh |-> FALSE, prevId |-> NoThread, peers |-> {}, after |-> {},
          ret_id |-> NoThread, ret_ids |-> <<>>,
          had |-> <<>>, idleIds |-> {}, stable |-> TRUE, left |-> 0,
          resp |-> NoResp, bg_err |-> NoErr]

Call(kind, arg, ok, res) == [kind |-> kind, arg |-> arg, ok |-> ok, res |-> res]

\* what the store held for user u, counted independently of the search code
CountUser(u) == Cardinality({i \in 1..Len(threads) : threads[i].user = u})

CountIdle(u) ==
    Cardinality({i \in 1..Len(threads) : threads[i].user = u /\ threads[i].runs = 0})

\* the truthiness test is dropped: every lookup is treated as a miss
NotThread_always(thread_id) == TRUE

\* `if not thread_id:` (get_thread) / the negation of `if thread_id:`
NotThread(thread_id) == thread_id = NoThread

CountCalls(p, kind) == Cardinality({i \in 1..Len(calls[p]) : calls[p][i].kind = kind})

\* ids of the threads tagged with u, in the service's order, read off the
\* store independently of the search code
OwnIds(u) ==
    LET own == SelectSeq(threads, LAMBDA t : t.user = u)
    IN  [i \in 1..Len(own) |-> own[i].id]

IdleIdsOf(u) ==
    {threads[i].id : i \in {j \in 1..Len(threads) :
                               threads[j].user = u /\ threads[j].runs = 0}}

\* history: how many threads of u the store s holds when delete_threads returns
Left(s, u) == Cardinality({i \in 1..Len(s) : s[i].user = u})

ListingOps == {"get_threads", "delete_threads"}

\* history: request p changed the thread set of user u, which the listing
\* calls for u in flight in other requests remember
Disturb(r, p, u) ==
    [q \in Procs |->
        IF q # p /\ r[q].op \in ListingOps /\ r[q].user = u
        THEN [r[q] EXCEPT !.stable = FALSE] ELSE r[q]]

Stale == [u \in Users |-> [lastGet[u] EXCEPT !.fresh = FALSE]]

InitDir ==
    /\ threads = <<>>
    /\ nextId = 1
    /\ nreq = 0
    /\ pc = [p \in Procs |-> "idle"]
    /\ req = [p \in Procs |-> NoReq]
    /\ calls = [p \in Procs |-> <<>>]
    /\ lastGet = [u \in Users |-> [id |-> NoThread, fresh |-> FALSE]]

MaxStore == 2

\* the service already holds up to MaxStore threads, idle or busy with a
\* run of another client, left by the requests accepted so far; two more
\* requests are to come
InitStore ==
    /\ \E n \in 0..MaxStore :
          \E us \in [1..n -> Users], rs \in [1..n -> 0..1] :
              threads = [i \in 1..n |-> [id |-> i, user |-> us[i], runs |-> rs[i]]]
    /\ nextId = Len(threads) + 1
    /\ nreq = MaxReqs - 2
    /\ pc = [p \in Procs |-> "idle"]
    /\ req = [p \in Procs |-> NoReq]
    /\ calls = [p \in Procs |-> <<>>]
    /\ lastGet = [u \in Users |-> [id |-> NoThread, fresh |-> FALSE]]

\* An HTTP request for one of the operations ops arrives and its handler
\* starts (src/src/api/routers)
Start(p, ops) ==
    /\ pc[p] = "idle"
    /\ nreq < MaxReqs
    /\ \E op \in ops, u \in Users :
        /\ req' = [req EXCEPT ![p] = [NoReq EXCEPT !.op = op, !.user = u,
                                                   !.rid = nreq + 1,
                                                   !.had = OwnIds(u)]]
        /\ pc' = [pc EXCEPT ![p] = FirstPc(op)]
    /\ nreq' = nreq + 1
    /\ UNCHANGED <<threads, nextId, calls, lastGet>>
    /\ UNCHANGED <<msgVars, runVars, graphVars>>

StartRequest(p) == Start(p, Ops)

MaxSent == 2

\* a request to /sent_message arrives
StartSent(p) == nreq < MaxSent /\ Start(p, SentOps)

\* _search_thread: thread id of the last entry of the page, or None
SearchThreadResult(u) ==
    LET page == SearchIdle(u, 1, 0)
    IN IF page # <<>> THEN page[Len(page)].id ELSE NoThread

Fail(p, detail) ==
    /\ req' = [req EXCEPT ![p].err = HTTPException(detail)]
    /\ pc' = [pc EXCEPT ![p] = "done"]

\* set_requests is awaited by the handler before it returns
AfterGetThread_inline(op) == IF op = "sent_message" THEN "bg_post_start" ELSE "run"

\* where the handler goes once get_thread returned: /set_message awaits
\* runs.get_answer(), /sent_message hands runs.set_requests to
\* background_tasks and returns
AfterGetThread(op) == IF op = "sent_message" THEN "sm_return" ELSE "run"

\* get_thread, first await: thread_id = await self._search_thread(user_id)
GetThreadSearch(p) ==
    /\ pc[p] = "gt_search"
    /\ LET u == req[p].user IN
        \/ /\ calls' = [calls EXCEPT ![p] = Append(@, Call("search", u, FALSE, NoThread))]
           /\ Fail(p, <<"Failed to get thread state for user ID", u, "cause">>)
        \/ LET found == SearchThreadResult(u)
               hist == [req[p] EXCEPT
                          !.userHad = CountUser(u),
                          !.idleHad = CountIdle(u),
                          !.prevFresh = lastGet[u].fresh,
                          !.prevId = lastGet[u].id,
                          !.peers = {req[q].rid : q \in
                                      {q \in Procs \ {p} :
                                         /\ pc[q] = "gt_create"
                                         /\ req[q].user = u
                                         /\ req[q].userHad = 0
                                         /\ CountUser(u) = 0}},
                          !.after = {req[q].rid : q \in
                                      {q \in Procs \ {p} :
                                         /\ pc[q] = "run"
                                         /\ req[q].user = u
                                         /\ req[q].userHad = 0
                                         /\ CountUser(u) = 1
                                         /\ CountIdle(u) = 1
                                         /\ \E i \in 1..Len(threads) :
                                               /\ threads[i].user = u
                                               /\ threads[i].id = req[q].thread_id}}]
           IN /\ calls' = [calls EXCEPT ![p] = Append(@, Call("search", u, TRUE, found))]
              /\ IF NotThread(found)
                 THEN /\ req' = [req EXCEPT ![p] = hist]
                      /\ pc' = [pc EXCEPT ![p] = "gt_create"]
                 ELSE /\ req' = [req EXCEPT ![p] = [hist EXCEPT !.thread_id = found]]
                      /\ pc' = [pc EXCEPT ![p] = AfterGetThread(req[p].op)]
    /\ UNCHANGED <<threads, nextId, nreq, lastGet>>
    /\ UNCHANGED <<msgVars, runVars, graphVars>>

\* the created thread's id is dropped: get_thread returns what the search gave
ReturnOfCreate_lost(found, created) == found

\* get_thread's return value after _create_thread: thread["thread_id"]
ReturnOfCreate(found, created) == created

\* get_thread, second await: thread_id = await self._create_thread(user_id)
GetThreadCreate(p) ==
    /\ pc[p] = "gt_create"
    /\ LET u == req[p].user IN
        \/ /\ calls' = [calls EXCEPT ![p] = Append(@, Call("create", u, FALSE, NoThread))]
           /\ Fail(p, <<"Failed to create thread for", u, "cause">>)
           /\ UNCHANGED <<threads, nextId, lastGet>>
        \/ /\ nextId <= MaxThreads
           /\ \E i \in 0..Len(threads) :
                threads' = InsertAt(threads, i, [id |-> nextId, user |-> u, runs |-> 0])
           /\ nextId' = nextId + 1
           /\ calls' = [calls EXCEPT ![p] = Append(@, Call("create", u, TRUE, nextId))]
           /\ req' = Disturb([req EXCEPT ![p].thread_id = ReturnOfCreate(@, nextId)], p, req[p].user)
           /\ pc' = [pc EXCEPT ![p] = AfterGetThread(req[p].op)]
           /\ lastGet' = [Stale EXCEPT ![u] =
                            [id |-> nextId,
                             fresh |-> req[p].userHad = 0 /\ CountUser(u) = 0]]
    /\ UNCHANGED nreq
    /\ UNCHANGED <<msgVars, runVars, graphVars>>

\* the thread the service holds under an id when a call names it (history:
\* recorded with each run call)
Found(tid) == IF Exists(tid) THEN tid ELSE NoThread

\* the service starts a run on any thread id
RunAccepted_any(tid) == TRUE

\* client.runs.stream is called without if_not_exists: the service starts
\* a run only on a thread it holds
RunAccepted(tid) == Exists(tid)

\* get_answer: the run starts on the thread (client.runs.stream is entered)
RunStart(p) ==
    /\ pc[p] = "run"
    /\ LET tid == req[p].thread_id IN
        \/ /\ calls' = [calls EXCEPT ![p] = Append(@, Call("run", tid, FALSE, Found(tid)))]
           /\ Fail(p, <<"Failed to get answer for user ID", req[p].user, "cause">>)
           /\ UNCHANGED <<threads, lastGet>>
        \/ /\ RunAccepted(tid)
           /\ calls' = [calls EXCEPT ![p] = Append(@, Call("run", tid, TRUE, Found(tid)))]
           /\ threads' = Bump(threads, tid, 1)
           /\ lastGet' = Stale
           /\ pc' = [pc EXCEPT ![p] = "running"]
           /\ UNCHANGED req
    /\ UNCHANGED <<nextId, nreq>>
    /\ UNCHANGED <<msgVars, runVars, graphVars>>

\* get_answer: the stream is exhausted (or raises) and the handler returns
RunEnd(p) ==
    /\ pc[p] = "running"
    /\ LET tid == req[p].thread_id IN
        /\ threads' = Bump(threads, tid, -1)
        /\ lastGet' = Stale
        /\ \/ Fail(p, <<"Failed to get answer for user ID", req[p].user, "cause">>)
           \/ /\ Exists(tid)
              /\ req' = [req EXCEPT ![p].result = "answer"]
              /\ pc' = [pc EXCEPT ![p] = "done"]
    /\ UNCHANGED <<nextId, nreq, calls>>
    /\ UNCHANGED <<msgVars, runVars, graphVars>>

\* delete_thread returns None whatever it deleted
ReturnOfDelete_none(thread_id) == NoThread

\* delete_thread: `return thread_id`
ReturnOfDelete(thread_id) == thread_id

\* delete_thread, first await: thread_id = await self._search_thread(user_id)
DeleteThreadSearch(p) ==
    /\ pc[p] = "dt_search"
    /\ LET u == req[p].user IN
        \/ /\ calls' = [calls EXCEPT ![p] = Append(@, Call("search", u, FALSE, NoThread))]
           /\ Fail(p, <<"Failed to get thread state for user ID", u, "cause">>)
        \/ LET found == SearchThreadResult(u)
           IN /\ calls' = [calls EXCEPT ![p] = Append(@, Call("search", u, TRUE, found))]
              /\ req' = [req EXCEPT ![p].thread_id = found,
                                    ![p].idleIds = IdleIdsOf(u),
                                    ![p].ret_id = IF NotThread(found)
                                                  THEN ReturnOfDelete(found) ELSE @]
              /\ pc' = [pc EXCEPT ![p] =
                          IF NotThread(found) THEN "done" ELSE "dt_delete"]
    /\ UNCHANGED <<threads, nextId, nreq, lastGet>>
    /\ UNCHANGED <<msgVars, runVars, graphVars>>

\* delete_thread, second await: client.threads.delete(thread_id=thread_id)
DeleteThreadDelete(p) ==
    /\ pc[p] = "dt_delete"
    /\ LET tid == req[p].thread_id IN
        \/ /\ calls' = [calls EXCEPT ![p] = Append(@, Call("delete", tid, FALSE, NoThread))]
           /\ Fail(p, <<"Failed to delete thread", "cause">>)
           /\ UNCHANGED <<threads, lastGet>>
        \/ /\ Exists(tid)
           /\ calls' = [calls EXCEPT ![p] = Append(@, Call("delete", tid, TRUE, NoThread))]
           /\ threads' = Without(threads, tid)
           /\ lastGet' = Stale
           /\ pc' = [pc EXCEPT ![p] = "done"]
           /\ req' = Disturb([req EXCEPT ![p].ret_id = ReturnOfDelete(tid)], p, req[p].user)
    /\ UNCHANGED <<nextId, nreq>>
    /\ UNCHANGED <<msgVars, runVars, graphVars>>

\* the offset advances by two pages
NextOffset_double(offset, limit) == offset + 2 * limit

\* get_threads: `offset += limit`
NextOffset(offset, limit) == offset + limit

\* get_threads, one turn of the while loop: one page query
GetThreadsPage(p) ==
    /\ pc[p] = "gts_page"
    /\ LET u == req[p].user IN
        \/ /\ calls' = [calls EXCEPT ![p] = Append(@, Call("search", u, FALSE, NoThread))]
           /\ Fail(p, <<"Failed to search threads for user ID", u, "cause">>)
        \/ /\ calls' = [calls EXCEPT ![p] = Append(@, Call("search", u, TRUE, NoThread))]
           /\ LET page == SearchAll(u, req[p].limit, req[p].offset)
              IN IF page = <<>>
                 THEN IF req[p].op = "delete_threads" /\ req[p].threads_ids # <<>>
                      THEN /\ pc' = [pc EXCEPT ![p] = "dts_delete"]
                           /\ UNCHANGED req
                      ELSE /\ pc' = [pc EXCEPT ![p] = "done"]
                           /\ req' = [req EXCEPT ![p].ret_ids = req[p].threads_ids,
                                                 ![p].left = Left(threads, u)]
                 ELSE /\ req' = [req EXCEPT
                                 ![p].threads_ids = Append(@, page[Len(page)].id),
                                 ![p].offset = NextOffset(@, req[p].limit)]
                      /\ UNCHANGED pc
    /\ UNCHANGED <<threads, nextId, nreq, lastGet>>
    /\ UNCHANGED <<msgVars, runVars, graphVars>>

\* the failure is recorded and the loop goes on to the next thread
OnDeleteError_continue(di, n) == IF di = n THEN "done" ELSE "dts_delete"

\* delete_threads: `raise HTTPException(...)` in the except clause leaves
\* the for loop and the call
OnDeleteError(di, n) == "done"

\* the for loop stops after its first turn
LastTurn_first(di, n) == TRUE

\* delete_threads: the for loop has reached the last of threads_ids
LastTurn(di, n) == di = n

\* delete_threads, one turn of the for loop: one delete call
DeleteThreadsDelete(p) ==
    /\ pc[p] = "dts_delete"
    /\ LET tid == req[p].threads_ids[req[p].di] IN
        \/ /\ calls' = [calls EXCEPT ![p] = Append(@, Call("delete", tid, FALSE, NoThread))]
           /\ req' = [req EXCEPT ![p].err =
                        HTTPException(<<"Failed to delete thread with ID", ToString(tid),
                                        "for user ID", req[p].user, "cause">>),
                                 ![p].di = @ + 1]
           /\ pc' = [pc EXCEPT ![p] =
                       OnDeleteError(req[p].di, Len(req[p].threads_ids))]
           /\ UNCHANGED <<threads, lastGet>>
        \/ /\ Exists(tid)
           /\ calls' = [calls EXCEPT ![p] = Append(@, Call("delete", tid, TRUE, NoThread))]
           /\ threads' = Without(threads, tid)
           /\ lastGet' = Stale
           /\ IF LastTurn(req[p].di, Len(req[p].threads_ids))
              THEN /\ req' = Disturb([req EXCEPT ![p].di = @ + 1,
                                                 ![p].ret_ids = req[p].threads_ids,
                                                 ![p].left = Left(threads', req[p].user)],
                                      p, req[p].user)
                   /\ pc' = [pc EXCEPT ![p] = "done"]
              ELSE /\ req' = Disturb([req EXCEPT ![p].di = @ + 1], p, req[p].user)
                   /\ UNCHANGED pc
    /\ UNCHANGED <<nextId, nreq>>
    /\ UNCHANGED <<msgVars, runVars, graphVars>>

\* the handler returns (or the exception handler answers) and the task ends
Respond(p) ==
    /\ pc[p] = "done"
    /\ pc' = [pc EXCEPT ![p] = "idle"]
    /\ req' = [req EXCEPT ![p] = NoReq]
    /\ calls' = [calls EXCEPT ![p] = <<>>]
    /\ UNCHANGED <<threads, nextId, nreq, lastGet>>
    /\ UNCHANGED <<msgVars, runVars, graphVars>>

\* ------------------------------------------------------------------------
\* Thread Directory properties
\* ------------------------------------------------------------------------
\* get_thread has returned a thread id to its handler
GtReturned(p) ==
    /\ req[p].op = "set_message"
    /\ pc[p] \in {"run", "running"} \/ (pc[p] = "done" /\ CountCalls(p, "run") > 0)

CreatedIds(p) ==
    {calls[p][i].res : i \in {j \in 1..Len(calls[p]) :
                                calls[p][j].kind = "create" /\ calls[p][j].ok}}

\* C1: a get_thread call for a user with no prior thread issues exactly one
\* create call and returns the id of the thread that call created; a second
\* get_thread call for the same user, made while the store is unchanged
\* since, issues no create call and returns the same id.
C1_ResolveOrCreate ==
    \A p \in Procs :
        GtReturned(p) =>
            /\ req[p].userHad = 0 =>
                  /\ CountCalls(p, "create") = 1
                  /\ CreatedIds(p) = {req[p].thread_id}
            /\ req[p].prevFresh =>
                  /\ CountCalls(p, "create") = 0
                  /\ req[p].thread_id = req[p].prevId

\* C1 witness: a second call that ran right after a first, creating, call
C1_Witness ==
    \E p \in Procs :
        /\ GtReturned(p)
        /\ req[p].prevFresh
        /\ req[p].thread_id = req[p].prevId
        /\ req[p].prevId # NoThread

\* C2 (as stated): get_thread issues a create call only when the user had no
\* thread at all in the store, whatever the lifecycle state of the threads.
C2_NoCreateWhenAnyThread ==
    \A p \in Procs :
        (req[p].op = "set_message" /\ CountCalls(p, "create") > 0)
            => req[p].userHad = 0

\* C2 (amended): get_thread issues a create call only when the user had no
\* idle thread when it searched; when an idle thread of the user existed it
\* issues no create call and returns an existing thread.
C2_NoCreateWhenIdleThread ==
    \A p \in Procs :
        req[p].op = "set_message" =>
            /\ CountCalls(p, "create") > 0 => req[p].idleHad = 0
            /\ (GtReturned(p) /\ req[p].idleHad > 0) =>
                  /\ CountCalls(p, "create") = 0
                  /\ calls[p][1].res = req[p].thread_id
            /\ (GtReturned(p) /\ req[p].idleHad = 0) => CountCalls(p, "create") = 1

\* C2 witness: the user's only thread is busy with a run, and get_thread
\* created a second thread for the user
C2_Witness ==
    \E p \in Procs :
        /\ GtReturned(p)
        /\ req[p].userHad > 0
        /\ req[p].idleHad = 0
        /\ CountCalls(p, "create") = 1
        /\ CountUser(req[p].user) = 2

\* the other in-flight request with request number r
Holder(r) == {q \in Procs : req[q].rid = r /\ GtReturned(q)}

MaxLog == 4

Contents == {"a", "b"}

\* Python None in a pair
None == "None"

\* tool_calls: "tool_calls" in message["additional_kwargs"]
Msg(type, content, tool_calls) ==
    [type |-> type, content |-> content, tool_calls |-> tool_calls]

Messages ==
    {Msg(t, c, k) : t \in {"human", "ai"}, c \in Contents, k \in BOOLEAN}
        \cup {Msg("tool", "a", FALSE)}

SeqsUpTo(S, n) == UNION {[1..k -> S] : k \in 0..n}

\* _init_message
InitMessage == [question |-> None, answer |-> None]

IsQuestion(message) == message.type = "human" /\ ~message.tool_calls

\* a question already pending is kept
SetQuestion_keepFirst(pending, message) ==
    IF pending.question = None
    THEN [pending EXCEPT !.question = message.content]
    ELSE pending

\* set_message["question"] = message["content"]
SetQuestion(pending, message) == [pending EXCEPT !.question = message.content]

\* the tool_calls test is missing from the assistant branch
IsAnswer_noToolCheck(message) == message.type = "ai"

IsAnswer(message) == message.type = "ai" /\ ~message.tool_calls

\* the pending pair is not re-initialised after the append: every appended
\* entry is the one dict object, so all entries show its latest fields
LoopBody_noReset(st, message) ==
    LET q == IF IsQuestion(message) THEN [st.pending EXCEPT !.question = message.content]
             ELSE st.pending
        a == [q EXCEPT !.answer = message.content]
    IN IF IsAnswer(message)
       THEN [pending |-> a, out |-> [i \in 1..(Len(st.out) + 1) |-> a]]
       ELSE [pending |-> q, out |-> [i \in 1..Len(st.out) |-> q]]

\* one turn of `for message in thread_state["values"]["messages"]`
LoopBody(st, message) ==
    LET q == IF IsQuestion(message) THEN SetQuestion(st.pending, message)
             ELSE st.pending
    IN IF IsAnswer(message)
       THEN [pending |-> InitMessage,
             out |-> Append(st.out, [q EXCEPT !.answer = message.content])]
       ELSE [pending |-> q, out |-> st.out]

\* a pending pair that holds a question is flushed at the end of the log
Returned_flush(out, pending) ==
    IF pending.question # None THEN Append(out, pending) ELSE out

\* `return messages`
Returned(out, pending) == out

MsgsIdle ==
    /\ m_user = "u1"
    /\ m_log = <<>>
    /\ m_pc = "off"
    /\ m_thread_id = NoThread
    /\ m_i = 0
    /\ set_message = InitMessage
    /\ messages = <<>>
    /\ m_bound = FALSE
    /\ m_ret = <<>>
    /\ m_err = NoErr

\* thread stores a get_messages call can meet: no thread of the user, an idle
\* thread (with its message log), a thread busy with a run
InitMsgs ==
    /\ m_user \in Users
    /\ \E st \in {"none", "idle", "busy"} :
        /\ threads = IF st = "none" THEN <<>>
                     ELSE <<[id |-> 1, user |-> m_user,
                             runs |-> IF st = "busy" THEN 1 ELSE 0]>>
        /\ m_log \in IF st = "idle" THEN SeqsUpTo(Messages, MaxLog) ELSE {<<>>}
    /\ nextId = 2
    /\ nreq = 0
    /\ pc = [p \in Procs |-> "idle"]
    /\ req = [p \in Procs |-> NoReq]
    /\ calls = [p \in Procs |-> <<>>]
    /\ lastGet = [u \in Users |-> [id |-> NoThread, fresh |-> FALSE]]
    /\ m_pc = "search"
    /\ m_thread_id = NoThread
    /\ m_i = 0
    /\ set_message = InitMessage
    /\ messages = <<>>
    /\ m_bound = FALSE
    /\ m_ret = <<>>
    /\ m_err = NoErr

MsgFail(e) ==
    /\ m_err' = e
    /\ m_pc' = "raised"

\* thread_id = await langgraph_threads._search_thread(user_id)
MsgSearch ==
    /\ m_pc = "search"
    /\ \/ /\ MsgFail(HTTPException(<<"Failed to get thread state for user ID",
                                      m_user, "cause">>))
          /\ UNCHANGED m_thread_id
       \/ /\ m_thread_id' = SearchThreadResult(m_user)
          /\ m_pc' = IF NotThread(m_thread_id') THEN "return" ELSE "get_state"
          /\ UNCHANGED m_err
    /\ UNCHANGED <<m_user, m_log, m_i, set_message, messages, m_bound, m_ret>>
    /\ UNCHANGED <<dirVars, runVars, graphVars>>

\* thread_state = await self.client.threads.get_state(thread_id), then
\* messages = [] and set_message = await self._init_message()
MsgGetState ==
    /\ m_pc = "get_state"
    /\ \/ /\ MsgFail(HTTPException(<<"Failed to get thread state thread ID",
                                      m_thread_id, "cause">>))
          /\ UNCHANGED <<messages, m_bound, set_message>>
       \/ /\ messages' = <<>>
          /\ m_bound' = TRUE
          /\ set_message' = InitMessage
          /\ m_pc' = "scan"
          /\ UNCHANGED m_err
    /\ UNCHANGED <<m_user, m_log, m_thread_id, m_i, m_ret>>
    /\ UNCHANGED <<dirVars, runVars, graphVars>>

\* the for loop, one message per step
MsgScan ==
    /\ m_pc = "scan"
    /\ m_i < Len(m_log)
    /\ LET st == LoopBody([pending |-> set_message, out |-> messages], m_log[m_i + 1])
       IN /\ set_message' = st.pending
          /\ messages' = st.out
    /\ m_i' = m_i + 1
    /\ UNCHANGED <<m_user, m_log, m_pc, m_thread_id, m_bound, m_ret, m_err>>
    /\ UNCHANGED <<dirVars, runVars, graphVars>>

MsgScanEnd ==
    /\ m_pc = "scan"
    /\ m_i = Len(m_log)
    /\ m_pc' = "return"
    /\ UNCHANGED <<m_user, m_log, m_thread_id, m_i, set_message, messages,
                   m_bound, m_ret, m_err>>
    /\ UNCHANGED <<dirVars, runVars, graphVars>>

\* `return messages`: reading a name that was never assigned raises
MsgReturn ==
    /\ m_pc = "return"
    /\ IF m_bound
       THEN /\ m_ret' = Returned(messages, set_message)
            /\ m_pc' = "returned"
            /\ UNCHANGED m_err
       ELSE /\ MsgFail(<<"UnboundLocalError", "messages">>)
            /\ UNCHANGED m_ret
    /\ UNCHANGED <<m_user, m_log, m_thread_id, m_i, set_message, messages, m_bound>>
    /\ UNCHANGED <<dirVars, runVars, graphVars>>

NextMsgs ==
    \/ MsgSearch
    \/ MsgGetState
    \/ MsgScan
    \/ MsgScanEnd
    \/ MsgReturn

\* get_messages' scan as a function of the log: the loop run to its end
RECURSIVE Scan(_, _)
Scan(log, k) ==
    IF k = 0 THEN [pending |-> InitMessage, out |-> <<>>]
    ELSE LoopBody(Scan(log, k - 1), log[k])

PairsOf(log) ==
    LET st == Scan(log, Len(log)) IN Returned(st.out, st.pending)

IsPrefixOf(a, b) == Len(a) <= Len(b) /\ \A i \in 1..Len(a) : a[i] = b[i]

CountOk(p, kind) ==
    Cardinality({i \in 1..Len(calls[p]) : calls[p][i].kind = kind /\ calls[p][i].ok})

\* get_threads has returned its list: every successful page query but the
\* last appended one id
GtsReturned(p) ==
    /\ req[p].op \in ListingOps
    /\ CountOk(p, "search") = Len(req[p].threads_ids) + 1

DeleteCalls(p) == SelectSeq(calls[p], LAMBDA c : c.kind = "delete")

DeleteArgs(p) == [i \in 1..Len(DeleteCalls(p)) |-> DeleteCalls(p)[i].arg]

UserOf(tid) ==
    {threads[k].user : k \in {j \in 1..Len(threads) : threads[j].id = tid}}

\* C14: with the default page size get_threads returns every thread id
\* tagged with the user exactly once, in the service's order, and no id of
\* another user, when no thread of the user is created or deleted during
\* the call.
C14_ListsOwnThreadsOnce ==
    \A p \in Procs :
        (GtsReturned(p) /\ req[p].stable /\ CountCalls(p, "delete") = 0) =>
            LET ids == req[p].threads_ids IN
            /\ ids = OwnIds(req[p].user)
            /\ ids = req[p].had
            /\ \A i, j \in 1..Len(ids) : i # j => ids[i] # ids[j]
            /\ \A i \in 1..Len(ids) : UserOf(ids[i]) = {req[p].user}
            /\ (req[p].op = "get_threads" /\ pc[p] = "done") =>
                  req[p].ret_ids = OwnIds(req[p].user)

\* C14 witness: get_threads returned the two ids of its user from a store
\* whose first thread belongs to the other user
C14_Witness ==
    \E p \in Procs :
        /\ req[p].op = "get_threads"
        /\ pc[p] = "done"
        /\ req[p].err = NoErr
        /\ req[p].stable
        /\ Len(req[p].ret_ids) = 2
        /\ Len(threads) = 3
        /\ threads[1].user # req[p].user

C16_DeleteThreadOneDelete ==
    \A p \in Procs :
        req[p].op = "delete_thread" =>
            /\ CountCalls(p, "create") = 0
            /\ CountCalls(p, "delete") <= 1
            /\ CountOk(p, "search") = 1 =>
                  IF req[p].idleIds = {}
                  THEN /\ CountCalls(p, "delete") = 0
                       /\ pc[p] = "done"
                       /\ req[p].err = NoErr
                       /\ req[p].ret_id = NoThread
                  ELSE /\ req[p].thread_id \in req[p].idleIds
                       /\ pc[p] = "done" => DeleteArgs(p) = <<req[p].thread_id>>
                       /\ (pc[p] = "done" /\ req[p].err = NoErr) =>
                             req[p].ret_id = req[p].thread_id

\* C16 witness: delete_thread returned the id it deleted while another
\* thread of the user is still in the store
C16_Witness ==
    \E p \in Procs :
        /\ req[p].op = "delete_thread"
        /\ pc[p] = "done"
        /\ req[p].err = NoErr
        /\ req[p].ret_id # NoThread
        /\ CountOk(p, "delete") = 1
        /\ CountUser(req[p].user) > 0

\* C17, as claimed: a delete_threads that returns has issued one delete
\* call per listed id and returns the list, and at its return no thread
\* tagged with the user remains.
C17_DeleteThreadsLeavesNone ==
    \A p \in Procs :
        (req[p].op = "delete_threads" /\ pc[p] = "done" /\ req[p].err = NoErr) =>
            /\ DeleteArgs(p) = req[p].threads_ids
            /\ req[p].ret_ids = req[p].threads_ids
            /\ req[p].left = 0

\* C17: a delete_threads that returns has issued exactly one delete call per
\* listed id, in list order, and returns the list; when no other request
\* created or deleted a thread of the user since the call began, the list
\* is the n threads the user had and no thread of the user remains at its
\* return.
C17_DeleteThreadsUndisturbed ==
    \A p \in Procs :
        (req[p].op = "delete_threads" /\ pc[p] = "done" /\ req[p].err = NoErr) =>
            /\ DeleteArgs(p) = req[p].threads_ids
            /\ \A i \in 1..Len(DeleteCalls(p)) : DeleteCalls(p)[i].ok
            /\ req[p].ret_ids = req[p].threads_ids
            /\ req[p].stable =>
                  /\ req[p].ret_ids = req[p].had
                  /\ Len(DeleteCalls(p)) = Len(req[p].had)
                  /\ req[p].left = 0
                  /\ CountUser(req[p].user) = 0

\* C17 witness: delete_threads returned the two threads its user had, with
\* a thread of the other user left in the store
C17_Witness ==
    \E p \in Procs :
        /\ req[p].op = "delete_threads"
        /\ pc[p] = "done"
        /\ req[p].err = NoErr
        /\ req[p].stable
        /\ Len(req[p].ret_ids) = 2
        /\ threads # <<>>

\* C18: in delete_threads the first failing delete call ends the loop and
\* raises: it is the last call, no delete call is issued for a thread
\* listed after it, the threads deleted before it stay deleted, and no
\* list is returned.
C18_FirstFailureAborts ==
    \A p \in Procs :
        req[p].op = "delete_threads" =>
            \A i \in 1..Len(calls[p]) :
                (calls[p][i].kind = "delete" /\ ~calls[p][i].ok) =>
                    /\ i = Len(calls[p])
                    /\ pc[p] = "done"
                    /\ req[p].err[1] = "HTTPException"
                    /\ req[p].ret_ids = <<>>
                    /\ IsPrefixOf(DeleteArgs(p), req[p].threads_ids)
                    /\ \A j \in 1..(i - 1) :
                          calls[p][j].kind = "delete" =>
                              /\ calls[p][j].ok
                              /\ ~Exists(calls[p][j].arg)

\* C18 witness: of three listed threads the first was deleted, the delete
\* of the second failed and the third is still in the store
C18_Witness ==
    \E p \in Procs :
        /\ req[p].op = "delete_threads"
        /\ pc[p] = "done"
        /\ Len(req[p].threads_ids) = 3
        /\ Len(DeleteCalls(p)) = 2
        /\ DeleteCalls(p)[1].ok
        /\ ~DeleteCalls(p)[2].ok
        /\ ~Exists(req[p].threads_ids[1])
        /\ Exists(req[p].threads_ids[3])

\* C19: every failure of a search, create or delete call inside a Thread
\* Directory operation is raised as an HTTP 500 error whose detail carries
\* both the user id and the underlying cause, and the failed call is the
\* operation's last call (no retry).
C19_FailuresCarryUserAndCause ==
    \A p \in Procs :
        \A i \in 1..Len(calls[p]) :
            (calls[p][i].kind \in {"search", "create", "delete"} /\ ~calls[p][i].ok) =>
                /\ i = Len(calls[p])
                /\ pc[p] = "done"
                /\ req[p].err[1] = "HTTPException"
                /\ req[p].err[2] = 500
                /\ \E k \in 1..Len(req[p].err[3]) : req[p].err[3][k] = req[p].user
                /\ \E k \in 1..Len(req[p].err[3]) : req[p].err[3][k] = "cause"

\* ------------------------------------------------------------------------
\* Message History Reader properties
\* ------------------------------------------------------------------------
MsgFinished == m_pc \in {"returned", "raised"}

MsgSearchFailed ==
    /\ m_err # NoErr
    /\ m_err[1] = "HTTPException"
    /\ m_err[3][1] = "Failed to get thread state for user ID"

\* C6: get_messages for a user who has no idle thread returns an empty
\* sequence and raises no error.
C6_NoThreadGivesEmptyList ==
    (MsgFinished /\ CountIdle(m_user) = 0 /\ ~MsgSearchFailed) =>
        /\ m_pc = "returned"
        /\ m_err = NoErr
        /\ m_ret = <<>>

IsAlternating(log) ==
    /\ Len(log) % 2 = 0
    /\ \A i \in 1..Len(log) :
          /\ ~log[i].tool_calls
          /\ log[i].type = IF i % 2 = 1 THEN "human" ELSE "ai"

ExpectedPairs(log) ==
    [i \in 1..(Len(log) \div 2) |->
        [question |-> log[2 * i - 1].content, answer |-> log[2 * i].content]]

\* C7: on a log that strictly alternates human and assistant messages
\* without tool-call metadata, get_messages returns exactly the pairs
\* {question: Qi, answer: Ai}, one per human/assistant couple, in log order.
C7_AlternatingLogRoundTrip ==
    (m_pc = "returned" /\ IsAlternating(m_log)) => m_ret = ExpectedPairs(m_log)

\* C7 witness: two different couples were paired
C7_Witness ==
    /\ m_pc = "returned"
    /\ IsAlternating(m_log)
    /\ Len(m_log) = 4
    /\ Len(m_ret) = 2
    /\ m_ret[1] # m_ret[2]

Strip(log) == SelectSeq(log, LAMBDA m : ~m.tool_calls)

\* C8: get_messages returns on every log what it returns on the log with all
\* messages carrying tool-call metadata removed.
C8_ToolCallsContributeNothing ==
    m_pc = "returned" => m_ret = PairsOf(Strip(m_log))

\* C8 witness: a flagged assistant message sat between a question and its
\* answer, and a flagged human message was in the log too
C8_Witness ==
    /\ m_pc = "returned"
    /\ Len(m_ret) = 1
    /\ \E i, j \in 1..Len(m_log) :
          /\ i < j
          /\ j < Len(m_log)
          /\ IsQuestion(m_log[i])
          /\ m_log[j].type = "ai" /\ m_log[j].tool_calls
          /\ m_log[j].content # m_ret[1].answer
    /\ \E i \in 1..Len(m_log) : m_log[i].type = "human" /\ m_log[i].tool_calls

AnswersIn(log, k) ==
    Cardinality({i \in 1..k : log[i].type = "ai" /\ ~log[i].tool_calls})

\* C9: pairs are appended only when an answer is set: no emitted pair lacks
\* an answer, the number of emitted pairs is the number of assistant messages
\* without tool-call metadata scanned so far, and a question still pending
\* at the end of the log is not in the returned list.
C9_PairsOnlyWithAnswer ==
    /\ (m_pc \in {"scan", "return"} /\ m_bound) =>
          /\ \A i \in 1..Len(messages) : messages[i].answer # None
          /\ Len(messages) = AnswersIn(m_log, m_i)
    /\ m_pc = "returned" =>
          /\ \A i \in 1..Len(m_ret) : m_ret[i].answer # None
          /\ Len(m_ret) = AnswersIn(m_log, Len(m_log))

\* C9 witness: the log ended with an unanswered question, which is pending
\* and not in the returned list
C9_Witness ==
    /\ m_pc = "returned"
    /\ Len(m_ret) = 1
    /\ set_message.question # None
    /\ IsQuestion(m_log[Len(m_log)])

\* position in the log of the i-th assistant message without tool-call
\* metadata; 0 for i = 0
AnswerPos(log, i) ==
    IF i = 0 THEN 0
    ELSE CHOOSE k \in 1..Len(log) :
            /\ log[k].type = "ai" /\ ~log[k].tool_calls
            /\ AnswersIn(log, k) = i

\* positions of the human messages without tool-call metadata between the
\* (i-1)-th and the i-th answer
AskedBefore(log, i) ==
    {j \in (AnswerPos(log, i - 1) + 1)..(AnswerPos(log, i) - 1) :
        log[j].type = "human" /\ ~log[j].tool_calls}

Greatest(S) == CHOOSE x \in S : \A y \in S : y <= x

\* C24: every pair get_messages returns has a set question, which is the
\* content of a human message located in the log before the pair's answer
\* and after the previous pair's answer.
C24_PairsHaveQuestion ==
    m_pc = "returned" =>
        \A i \in 1..Len(m_ret) :
            /\ m_ret[i].question # None
            /\ \E j \in (AnswerPos(m_log, i - 1) + 1)..(AnswerPos(m_log, i) - 1) :
                  /\ m_log[j].type = "human"
                  /\ m_log[j].content = m_ret[i].question

\* C25: when two or more human messages without tool-call metadata precede
\* an assistant reply (none of them answered before), get_messages returns
\* one pair for that reply and its question is the content of the last of
\* them; with the earlier ones it returns no pair.
C25_LastQuestionWins ==
    m_pc = "returned" =>
        /\ Len(m_ret) = AnswersIn(m_log, Len(m_log))
        /\ \A i \in 1..Len(m_ret) :
              Cardinality(AskedBefore(m_log, i)) >= 2 =>
                  /\ m_ret[i].question = m_log[Greatest(AskedBefore(m_log, i))].content
                  /\ m_ret[i].answer = m_log[AnswerPos(m_log, i)].content

\* C25 witness: two adjacent human messages with different contents were
\* followed by a reply, and the one pair returned asks the second
C25_Witness ==
    /\ m_pc = "returned"
    /\ Len(m_log) = 3
    /\ IsQuestion(m_log[1])
    /\ IsQuestion(m_log[2])
    /\ m_log[1].content # m_log[2].content
    /\ IsAnswer(m_log[3])
    /\ Len(m_ret) = 1
    /\ m_ret[1].question = m_log[2].content

\* ------------------------------------------------------------------------
\* Run Dispatcher: get_stream and set_requests
\* ------------------------------------------------------------------------
MaxStream == 3
MaxData == 2

Frags == {"Hel", "lo"}

\* one entry of chunk.data; has_content: "content" in data,
\* tool_calls: "tool_calls" in data["additional_kwargs"]
Entry(has_content, content, tool_calls, type) ==
    [has_content |-> has_content, content |-> content,
     tool_calls |-> tool_calls, type |-> type]

Entries ==
    {Entry(TRUE, c, k, t) : c \in Frags, k \in BOOLEAN,
                            t \in {"AIMessageChunk", "tool"}}
        \cup {Entry(FALSE, "", k, t) : k \in BOOLEAN, t \in {"AIMessageChunk", "tool"}}

Events == {"messages", "metadata"}

\* a chunk as the generator sees it on arrival; the entries of chunk.data
\* are drawn when the for loop reads them
Chunks == {[event |-> ev, len |-> n] : ev \in Events, n \in 0..MaxData}

NoChunk == [event |-> "none", len |-> 0]

\* the type test is missing from get_stream's filter
PassesStream_noType(data) == data.has_content /\ ~data.tool_calls

\* get_stream's filter on an entry of a "messages" event
PassesStream(data) ==
    data.has_content /\ ~data.tool_calls /\ data.type = "AIMessageChunk"

\* the tool_calls test is missing from set_requests' filter
PassesWebhook_noToolCheck(data) == data.has_content /\ data.type = "AIMessageChunk"

\* set_requests' filter on an entry of a "messages" event
PassesWebhook(data) ==
    data.has_content /\ ~data.tool_calls /\ data.type = "AIMessageChunk"

\* json.dumps({"answer": content}), as its tokens
JsonDumps(obj) == <<"{", "\"answer\"", ": ", <<"\"", obj.answer, "\"">>, "}">>

\* f"data: {json_chunk}\n"
StreamLine(content) == <<"data: ", JsonDumps([answer |-> content]), "\n">>

StartMarker == [answer |-> "<answer>"]

EndMarker == [answer |-> "</answer>"]

Outcomes == {"2xx", "4xx", "5xx", "transport"}

\* the except clause logs and swallows the error instead of re-raising
SentRequestRaises_swallowed(outcome) == FALSE

\* _sent_request: raise_for_status() or the transport raise httpx.HTTPError,
\* which the except clause logs and re-raises
SentRequestRaises(outcome) == outcome # "2xx"

HttpxError(outcome) ==
    IF outcome = "transport" THEN <<"httpx.TransportError">>
    ELSE <<"httpx.HTTPStatusError", outcome>>

\* get_answer: the state snapshots of stream_mode="values"; a snapshot's
\* data["messages"] holds at least the question that was sent
MaxMsgs == 2

Snapshots ==
    {[messages |-> m] :
        m \in SeqsUpTo({[content |-> c] : c \in Frags}, MaxMsgs) \ {<<>>}}

\* self.user_id and self.thread_id of the LangGraphRuns object
RunsUser == "u1"

RunsThreadId == 1

\* messages[0] is read instead of messages[-1]
LastContent_first(snaps) ==
    snaps[1].messages[Len(snaps[1].messages)].content

\* messages[-1].data["messages"][-1]["content"]
LastContent(snaps) ==
    LET last == snaps[Len(snaps)]
    IN  last.messages[Len(last.messages)].content

IndexError == <<"IndexError", "list index out of range">>

\* an empty list is answered with an empty string
GetAnswerReturn_emptyOk(snaps) ==
    IF snaps = <<>>
    THEN [err |-> NoErr, ret |-> ""]
    ELSE [err |-> NoErr, ret |-> LastContent(snaps)]

\* the return statement of get_answer, outside the try: indexing an empty
\* list raises IndexError
GetAnswerReturn(snaps) ==
    IF snaps = <<>>
    THEN [err |-> IndexError, ret |-> None]
    ELSE [err |-> NoErr, ret |-> LastContent(snaps)]

\* app.py: @app.exception_handler(HTTPException)
HttpExceptionHandler(exc) ==
    [status |-> exc[2], content |-> [detail |-> exc[3]]]

\* app.py: @app.exception_handler(Exception)
GeneralExceptionHandler(exc) ==
    [status |-> 500, content |-> [detail |-> <<"Internal server error.">>]]

ExceptionHandler(exc) ==
    IF exc[1] = "HTTPException"
    THEN HttpExceptionHandler(exc)
    ELSE GeneralExceptionHandler(exc)

\* ------------------------------------------------------------------------
\* The compiled graph (src/src/graph.py) and its router (route_message)
\* ------------------------------------------------------------------------
\* tool calls of one assistant message
MaxCalls == 2

\* update_instructions steps of one run
MaxRounds == 2

RETRIEVE == "retrieve"

QNA_CHATBOT == "qna_chatbot"

UPDATE_PROFILE == "update_profile"

UPDATE_INSTRUCTIONS == "update_instructions"

UPDATE_INSTRUCTIONS_TOOL == "UpdateInstructions"

START == "__start__"

END == "__end__"

\* builder.add_node
Nodes == {RETRIEVE, QNA_CHATBOT, UPDATE_PROFILE, UPDATE_INSTRUCTIONS}

\* update_instructions ends the run
Edge_instructionsEnd(node) ==
    CASE node = START -> RETRIEVE
      [] node = RETRIEVE -> QNA_CHATBOT
      [] OTHER -> END

\* builder.add_edge: the node that follows a node over a fixed edge; a node
\* without an outgoing edge ends the run
Edge(node) ==
    CASE node = START -> RETRIEVE
      [] node = RETRIEVE -> QNA_CHATBOT
      [] node = UPDATE_INSTRUCTIONS -> QNA_CHATBOT
      [] OTHER -> END

\* the args of a tool call as the chat model wrote them: UpdateMemory's
\* update_type "INSTRUCTION", another value, or no update_type at all
UpdateTypes == {"INSTRUCTION", "PROFILE", "instruction"}

NoUpdateType == [has |-> {}, update_type |-> None]

ToolArgs == {[has |-> {"update_type"}, update_type |-> t] : t \in UpdateTypes}
                \cup {NoUpdateType}

ToolCalls == {[args |-> a] : a \in ToolArgs}

HumanMessage == [type |-> "human", name |-> None, tool_calls |-> <<>>]

AIMessage(tool_calls) == [type |-> "ai", name |-> None, tool_calls |-> tool_calls]

ToolMessage(name) == [type |-> "tool", name |-> name, tool_calls |-> <<>>]

NoRoute == [msg |-> HumanMessage, ret |-> None, err |-> NoErr]

\* route_message reads the last tool call
FirstToolCall_last(tool_calls) == tool_calls[Len(tool_calls)]

\* message.tool_calls[0]
FirstToolCall(tool_calls) == tool_calls[1]

\* route_message(state, config, store): what it returns or raises, with the
\* message it read
route_message(state) ==
    LET message == state.messages[Len(state.messages)] IN
    IF Len(message.tool_calls) = 0
    THEN [msg |-> message, ret |-> END, err |-> NoErr]
    ELSE LET tool_call == FirstToolCall(message.tool_calls) IN
         IF "update_type" \notin tool_call.args.has
         THEN [msg |-> message, ret |-> None, err |-> <<"KeyError", "update_type">>]
         ELSE IF tool_call.args.update_type = "INSTRUCTION"
              THEN [msg |-> message, ret |-> UPDATE_INSTRUCTIONS, err |-> NoErr]
              ELSE [msg |-> message, ret |-> None, err |-> <<"ValueError">>]

GraphIdle ==
    /\ g_pc = "off"
    /\ g_messages = <<>>
    /\ g_trace = <<>>
    /\ g_route = NoRoute
    /\ g_err = NoErr

\* a node raises: the run is over with the exception
NodeRaises(cause) ==
    /\ g_pc' = "failed"
    /\ g_err' = <<"Exception", cause>>

\* retrieve: the hybrid search gives the documents or raises
GraphRetrieve ==
    /\ g_pc = RETRIEVE
    /\ g_trace' = Append(g_trace, RETRIEVE)
    /\ \/ g_pc' = Edge(RETRIEVE) /\ UNCHANGED g_err
       \/ NodeRaises("hybrid search")
    /\ UNCHANGED <<g_messages, g_route>>
    /\ UNCHANGED <<dirVars, msgVars, runVars>>

\* qna_chatbot (metta_chatbot): the chat model, bound to the UpdateMemory
\* tool, answers with a message that carries tool calls or none, or raises;
\* the conditional edge comes next
GraphChatbot ==
    /\ g_pc = QNA_CHATBOT
    /\ g_trace' = Append(g_trace, QNA_CHATBOT)
    /\ \/ \E tool_calls \in SeqsUpTo(ToolCalls, MaxCalls) :
             /\ g_messages' = Append(g_messages, AIMessage(tool_calls))
             /\ g_pc' = "route_message"
             /\ UNCHANGED g_err
       \/ NodeRaises("update_memory") /\ UNCHANGED g_messages
    /\ UNCHANGED g_route
    /\ UNCHANGED <<dirVars, msgVars, runVars>>

\* the conditional edge of qna_chatbot: route_message names the next node
\* or raises
GraphRoute ==
    /\ g_pc = "route_message"
    /\ LET out == route_message([messages |-> g_messages]) IN
        /\ g_route' = out
        /\ g_err' = out.err
        /\ g_pc' = IF out.err = NoErr THEN out.ret ELSE "failed"
    /\ UNCHANGED <<g_messages, g_trace>>
    /\ UNCHANGED <<dirVars, msgVars, runVars>>

Rounds == Cardinality({i \in 1..Len(g_trace) : g_trace[i] = UPDATE_INSTRUCTIONS})

\* update_instructions: the instructions are rewritten and stored and a
\* tool message answers the tool call, or the chat model raises
GraphUpdateInstructions ==
    /\ g_pc = UPDATE_INSTRUCTIONS
    /\ Rounds < MaxRounds
    /\ g_trace' = Append(g_trace, UPDATE_INSTRUCTIONS)
    /\ \/ /\ g_messages' = Append(g_messages, ToolMessage(UPDATE_INSTRUCTIONS_TOOL))
          /\ g_pc' = Edge(UPDATE_INSTRUCTIONS)
          /\ UNCHANGED g_err
       \/ NodeRaises("update_instruction") /\ UNCHANGED g_messages
    /\ UNCHANGED g_route
    /\ UNCHANGED <<dirVars, msgVars, runVars>>

\* no edge and no route leads to update_profile: it has no step
NextGraph ==
    \/ GraphRetrieve
    \/ GraphChatbot
    \/ GraphRoute
    \/ GraphUpdateInstructions

RunsIdle ==
    /\ r_mode = "none"
    /\ r_pc = "off"
    /\ r_started = FALSE
    /\ r_n = 0
    /\ r_chunk = NoChunk
    /\ r_di = 0
    /\ r_out = <<>>
    /\ r_data = StartMarker
    /\ r_posts = <<>>
    /\ chunks = 0
    /\ r_err = NoErr
    /\ r_expect = <<>>
    /\ r_seen = {}
    /\ r_snaps = <<>>
    /\ r_ret = None
    /\ r_resp = NoResp

\* the state after `await runs.get_stream()` returned the generator to
\* StreamingResponse, after the background task entered set_requests, or
\* after /set_message entered get_answer
\* set_requests iterates the stream without posting the start marker
FirstStep_pull(mode) == IF mode = "get_answer" THEN "collect" ELSE "pull"

\* the first await of each mode: get_stream's consumer pulls the generator,
\* set_requests posts the start marker, get_answer collects the stream
FirstStep(mode) ==
    CASE mode = "get_stream" -> "pull"
      [] mode = "set_requests" -> "post_start"
      [] OTHER -> "collect"

InitRuns ==
    /\ InitDir
    /\ MsgsIdle
    /\ GraphIdle
    /\ r_mode \in {"get_stream", "set_requests", "get_answer"}
    /\ r_pc = FirstStep(r_mode)
    /\ r_snaps = <<>>
    /\ r_ret = None
    /\ r_resp = NoResp
    /\ r_started = FALSE
    /\ r_n = 0
    /\ r_chunk = NoChunk
    /\ r_di = 0
    /\ r_out = <<>>
    /\ r_data = StartMarker
    /\ r_posts = <<>>
    /\ chunks = 0
    /\ r_err = NoErr
    /\ r_expect = <<>>
    /\ r_seen = {}

\* what the claims call a qualifying entry of a "messages" event: carries
\* content, lacks tool-call metadata, is an AIMessageChunk
Qualifying(e) ==
    IF e.has_content /\ ~e.tool_calls /\ e.type = "AIMessageChunk"
    THEN <<e.content>> ELSE <<>>

\* set_requests returns after its loop without posting the end marker
AfterStream_noEnd(mode) == "returned"

\* the generator is exhausted: get_stream's body is complete; set_requests
\* leaves `async for data in event_generator()` and posts the end marker
AfterStream(mode) == IF mode = "get_stream" THEN "returned" ELSE "post_end"

\* `async for chunk in self.client.runs.stream(...)`: the generator asks the
\* execution stream for its next chunk; the first request starts the run.
\* The data of an event other than "messages" is never read; it is taken to
\* hold entries that carry content.
GenPull ==
    /\ r_pc = "pull"
    /\ r_started' = TRUE
    /\ \/ \* the stream emits a chunk
          /\ r_n < MaxStream
          /\ \E c \in Chunks :
                /\ r_chunk' = c
                /\ r_seen' = IF c.event # "messages" /\ c.len > 0
                             THEN r_seen \cup {"event"} ELSE r_seen
                /\ r_pc' = IF c.event = "messages" THEN "entry" ELSE "pull"
          /\ r_n' = r_n + 1
          /\ r_di' = 0
          /\ UNCHANGED r_err
       \/ \* the stream is exhausted: the generator finishes
          /\ r_pc' = AfterStream(r_mode)
          /\ UNCHANGED <<r_n, r_chunk, r_di, r_err, r_seen>>
       \/ \* the stream raises: nothing around the iteration catches it
          /\ r_err' = <<"Exception", "cause">>
          /\ r_pc' = "raised"
          /\ r_seen' = r_seen \cup {"stream_raised"}
          /\ UNCHANGED <<r_n, r_chunk, r_di>>
    /\ UNCHANGED <<r_mode, r_out, r_data, r_posts, chunks, r_expect>>
    /\ UNCHANGED <<dirVars, msgVars, ansVars, graphVars>>

\* `for data in chunk.data`: one entry; a passing entry is yielded
GenEntry ==
    /\ r_pc = "entry"
    /\ IF r_di = r_chunk.len
       THEN /\ r_pc' = "pull"
            /\ UNCHANGED <<r_di, r_out, r_data, r_expect, r_seen>>
       ELSE \E data \in Entries :
            /\ r_di' = r_di + 1
            /\ r_expect' = r_expect \o Qualifying(data)
            /\ r_seen' = IF data.has_content /\ data.tool_calls
                               /\ data.type = "AIMessageChunk"
                         THEN r_seen \cup {"tool_calls"} ELSE r_seen
            /\ IF r_mode = "get_stream"
               THEN /\ r_out' = IF PassesStream(data)
                                 THEN Append(r_out, StreamLine(data.content))
                                 ELSE r_out
                    /\ UNCHANGED <<r_pc, r_data>>
               ELSE IF PassesWebhook(data)
                    THEN /\ r_data' = [answer |-> data.content]
                         /\ r_pc' = "post_data"
                         /\ UNCHANGED r_out
                    ELSE UNCHANGED <<r_pc, r_out, r_data>>
    /\ UNCHANGED <<r_mode, r_started, r_n, r_chunk, r_posts, chunks, r_err>>
    /\ UNCHANGED <<dirVars, msgVars, ansVars, graphVars>>

\* await self._sent_request(callback_url, body), at the three call sites
Post(body, next) ==
    \E outcome \in Outcomes :
        /\ r_posts' = Append(r_posts, [body |-> body, outcome |-> outcome])
        /\ IF SentRequestRaises(outcome)
           THEN /\ r_err' = HttpxError(outcome)
                /\ r_pc' = "raised"
           ELSE /\ r_pc' = next
                /\ UNCHANGED r_err

PostStart ==
    /\ r_pc = "post_start"
    /\ Post(StartMarker, "pull")
    /\ UNCHANGED <<r_mode, r_started, r_n, r_chunk, r_di, r_out, r_data, chunks,
                   r_expect, r_seen>>
    /\ UNCHANGED <<dirVars, msgVars, ansVars, graphVars>>

\* the body of `async for data in event_generator()`
PostData ==
    /\ r_pc = "post_data"
    /\ Post(r_data, "entry")
    /\ chunks' = IF r_pc' = "entry" THEN chunks + 1 ELSE chunks
    /\ UNCHANGED <<r_mode, r_started, r_n, r_chunk, r_di, r_out, r_data,
                   r_expect, r_seen>>
    /\ UNCHANGED <<dirVars, msgVars, ansVars, graphVars>>

PostEnd ==
    /\ r_pc = "post_end"
    /\ Post(EndMarker, "returned")
    /\ UNCHANGED <<r_mode, r_started, r_n, r_chunk, r_di, r_out, r_data, chunks,
                   r_expect, r_seen>>
    /\ UNCHANGED <<dirVars, msgVars, ansVars, graphVars>>

\* get_answer: `[chunk async for chunk in self.client.runs.stream(...)]`
\* asks the execution stream for its next snapshot; when the stream is
\* exhausted the finally clause logs and the return statement runs
AnswerPull ==
    /\ r_pc = "collect"
    /\ r_started' = TRUE
    /\ \/ \* the stream emits a snapshot
          /\ r_n < MaxStream
          /\ \E chunk \in Snapshots :
                /\ r_snaps' = Append(r_snaps, chunk)
                /\ r_expect' = Append(r_expect,
                                      chunk.messages[Len(chunk.messages)].content)
          /\ r_n' = r_n + 1
          /\ UNCHANGED <<r_pc, r_err, r_seen, r_ret>>
       \/ \* the stream is exhausted
          /\ LET out == GetAnswerReturn(r_snaps)
             IN  /\ r_err' = out.err
                 /\ r_ret' = out.ret
                 /\ r_pc' = IF out.err = NoErr THEN "returned" ELSE "raised"
          /\ r_seen' = r_seen \cup {"exhausted"}
          /\ UNCHANGED <<r_n, r_snaps, r_expect>>
       \/ \* the stream raises: the except clause raises HTTPException
          /\ r_err' = HTTPException(<<"Failed to get answer for user ID",
                                      RunsUser, "cause">>)
          /\ r_pc' = "raised"
          /\ UNCHANGED <<r_n, r_snaps, r_expect, r_seen, r_ret>>
    /\ UNCHANGED <<r_mode, r_chunk, r_di, r_out, r_data, r_posts, chunks, r_resp>>
    /\ UNCHANGED <<dirVars, msgVars, graphVars>>

\* /set_message: `answer = await runs.get_answer()` returned, and the
\* handler returns MessageModel, or raised, and the application's exception
\* handler answers
SetMessageRespond ==
    /\ r_mode = "get_answer"
    /\ r_pc \in {"returned", "raised"}
    /\ r_resp' = IF r_pc = "returned"
                 THEN [status |-> 200,
                       content |-> MessageModel(r_ret, RunsThreadId)]
                 ELSE ExceptionHandler(r_err)
    /\ r_pc' = "responded"
    /\ UNCHANGED <<r_mode, r_started, r_n, r_chunk, r_di, r_out, r_data,
                   r_posts, chunks, r_err, r_expect, r_seen, r_snaps, r_ret>>
    /\ UNCHANGED <<dirVars, msgVars, graphVars>>

\* StreamingResponse(event_generator, media_type="application/x-ndjson"):
\* the status line is sent before the generator is iterated, the lines
\* yielded are the body
StreamingResponse(body) == [status |-> 200, content |-> body]

\* /stream_message: the generator is exhausted or raised while the body
\* was being sent; the connection is closed on what was sent
StreamMessageRespond ==
    /\ r_mode = "get_stream"
    /\ r_pc \in {"returned", "raised"}
    /\ r_resp' = StreamingResponse(r_out)
    /\ r_pc' = "responded"
    /\ UNCHANGED <<r_mode, r_started, r_n, r_chunk, r_di, r_out, r_data,
                   r_posts, chunks, r_err, r_expect, r_seen, r_snaps, r_ret>>
    /\ UNCHANGED <<dirVars, msgVars, graphVars>>

NextRuns ==
    \/ StreamMessageRespond
    \/ GenPull
    \/ GenEntry
    \/ PostStart
    \/ PostData
    \/ PostEnd
    \/ AnswerPull
    \/ SetMessageRespond

\* ------------------------------------------------------------------------
\* /sent_message: the response and the detached delivery
\* ------------------------------------------------------------------------
MaxPosts == 1

\* the handler adds runs.set_requests to background_tasks and returns
\* MessageModel(answer="", thread_id=thread_id); the response is sent, then
\* the background task is started
SentMessageReturn(p) ==
    /\ pc[p] = "sm_return"
    /\ req' = [req EXCEPT ![p].resp =
                 [status |-> 200, content |-> MessageModel("", req[p].thread_id)]]
    /\ pc' = [pc EXCEPT ![p] = "bg_post_start"]
    /\ UNCHANGED <<threads, nextId, nreq, calls, lastGet>>
    /\ UNCHANGED <<msgVars, runVars, graphVars>>

\* one callback POST of the background task; a failure leaves set_requests
BgPost(p, body, next) ==
    \E outcome \in Outcomes :
        /\ calls' = [calls EXCEPT ![p] =
                       Append(@, Call("post", body, ~SentRequestRaises(outcome), NoThread))]
        /\ IF SentRequestRaises(outcome)
           THEN /\ req' = [req EXCEPT ![p].bg_err = HttpxError(outcome)]
                /\ pc' = [pc EXCEPT ![p] = "done"]
           ELSE /\ pc' = [pc EXCEPT ![p] = next]
                /\ UNCHANGED req

\* set_requests: the start marker
BgPostStart(p) ==
    /\ pc[p] = "bg_post_start"
    /\ BgPost(p, StartMarker.answer, "bg_run")
    /\ UNCHANGED <<threads, nextId, nreq, lastGet>>
    /\ UNCHANGED <<msgVars, runVars, graphVars>>

\* set_requests: the first pull of event_generator enters client.runs.stream
BgRunStart(p) ==
    /\ pc[p] = "bg_run"
    /\ LET tid == req[p].thread_id IN
        \/ /\ calls' = [calls EXCEPT ![p] = Append(@, Call("run", tid, FALSE, Found(tid)))]
           /\ req' = [req EXCEPT ![p].bg_err = <<"Exception", "cause">>]
           /\ pc' = [pc EXCEPT ![p] = "done"]
           /\ UNCHANGED <<threads, lastGet>>
        \/ /\ RunAccepted(tid)
           /\ calls' = [calls EXCEPT ![p] = Append(@, Call("run", tid, TRUE, Found(tid)))]
           /\ threads' = Bump(threads, tid, 1)
           /\ lastGet' = Stale
           /\ pc' = [pc EXCEPT ![p] = "bg_running"]
           /\ UNCHANGED req
    /\ UNCHANGED <<nextId, nreq>>
    /\ UNCHANGED <<msgVars, runVars, graphVars>>

\* set_requests returns after its loop without posting the end marker
BgAfterStream_done == "done"

\* set_requests: after the loop over the stream comes the end marker
BgAfterStream == "bg_post_end"

\* set_requests: the stream yields a fragment, which is posted, or is
\* exhausted, or raises; a run whose consumer left is over
BgDeliver(p) ==
    /\ pc[p] = "bg_running"
    /\ LET tid == req[p].thread_id IN
        \/ /\ CountCalls(p, "post") <= MaxPosts
           /\ BgPost(p, "fragment", "bg_running")
           /\ IF pc'[p] = "done"
              THEN threads' = Bump(threads, tid, -1) /\ lastGet' = Stale
              ELSE UNCHANGED <<threads, lastGet>>
        \/ /\ threads' = Bump(threads, tid, -1)
           /\ lastGet' = Stale
           /\ pc' = [pc EXCEPT ![p] = BgAfterStream]
           /\ UNCHANGED <<req, calls>>
        \/ /\ threads' = Bump(threads, tid, -1)
           /\ lastGet' = Stale
           /\ req' = [req EXCEPT ![p].bg_err = <<"Exception", "cause">>]
           /\ pc' = [pc EXCEPT ![p] = "done"]
           /\ UNCHANGED calls
    /\ UNCHANGED <<nextId, nreq>>
    /\ UNCHANGED <<msgVars, runVars, graphVars>>

\* set_requests: the end marker
BgPostEnd(p) ==
    /\ pc[p] = "bg_post_end"
    /\ BgPost(p, EndMarker.answer, "done")
    /\ UNCHANGED <<threads, nextId, nreq, lastGet>>
    /\ UNCHANGED <<msgVars, runVars, graphVars>>

\* the thread id get_thread handed to the handler, read off its calls
ResolvedId(p) ==
    LET gs == SelectSeq(calls[p], LAMBDA c : c.kind \in {"search", "create"}
                                              /\ c.ok /\ c.res # NoThread)
    IN  gs[Len(gs)].res

Delivering(p) == CountCalls(p, "post") + CountCalls(p, "run") > 0

\* C20: /sent_message answers {answer: "", thread_id: <resolved id>} without
\* waiting for the delivery: the response exists before any callback POST
\* or run of the request is started, and no outcome of the delivery changes
\* it.
C20_RespondsBeforeDelivery ==
    \A p \in Procs :
        req[p].op = "sent_message" =>
            /\ Delivering(p) => req[p].resp # NoResp
            /\ req[p].err # NoErr => (~Delivering(p) /\ req[p].resp = NoResp)
            /\ req[p].resp # NoResp =>
                  req[p].resp = [status |-> 200,
                                 content |-> [answer |-> "",
                                              thread_id |-> ResolvedId(p)]]
            /\ (pc[p] = "done" /\ req[p].err = NoErr) => req[p].resp # NoResp

\* C20 witness: the delivery posted the start marker, ran and then failed
\* on a later POST, under a response that was sent with status 200
C20_Witness ==
    \E p \in Procs :
        /\ req[p].op = "sent_message"
        /\ pc[p] = "done"
        /\ req[p].bg_err # NoErr
        /\ CountOk(p, "run") = 1
        /\ CountCalls(p, "post") = 2
        /\ req[p].resp.status = 200

\* the callback POSTs of a request's delivery, in the order it issued them
PostsOf(p) == SelectSeq(calls[p], LAMBDA c : c.kind = "post")

\* start marker first and only first, fragments, end marker last and only
\* after every earlier POST succeeded; a delivery that ended without an
\* error has posted its end marker
OwnOrderKept(p) ==
    LET ps == PostsOf(p) IN
    /\ \A i \in 1..Len(ps) :
          /\ ps[i].arg \in {"<answer>", "fragment", "</answer>"}
          /\ (ps[i].arg = "<answer>") <=> (i = 1)
          /\ ps[i].arg = "</answer>" => i = Len(ps)
          /\ i < Len(ps) => ps[i].ok
    /\ (pc[p] = "done" /\ req[p].resp # NoResp /\ req[p].bg_err = NoErr) =>
          /\ Len(ps) >= 2
          /\ ps[Len(ps)].arg = "</answer>"
          /\ ps[Len(ps)].ok

\* the delivery of p has posted its start marker and consumed its stream:
\* its end marker is the next POST it issues
EndMarkerDue(p) == req[p].op = "sent_message" /\ pc[p] = "bg_post_end"

\* this step is a callback POST of the delivery of q
PostsNow(q) ==
    /\ Len(calls'[q]) = Len(calls[q]) + 1
    /\ calls'[q][Len(calls'[q])].kind = "post"

IsPrefix(a, b) == Len(a) <= Len(b) /\ \A i \in 1..Len(a) : a[i] = b[i]

Bodies == [i \in 1..Len(r_posts) |-> r_posts[i].body]

FragmentBodies == [i \in 1..Len(r_expect) |-> [answer |-> r_expect[i]]]

\* C4: set_requests issues its POSTs in the order start marker, one POST per
\* qualifying entry in stream order, end marker: when it returns it has
\* issued exactly n+2 POSTs, n the number of qualifying entries, and at every
\* moment the POSTs issued so far are a prefix of that sequence.
C4_WebhookPostsInOrder ==
    r_mode = "set_requests" =>
        /\ IsPrefix(Bodies, <<StartMarker>> \o FragmentBodies \o <<EndMarker>>)
        /\ r_pc = "returned" =>
              /\ Bodies = <<StartMarker>> \o FragmentBodies \o <<EndMarker>>
              /\ Len(r_posts) = Len(r_expect) + 2
              /\ chunks = Len(r_expect)

\* C4 witness: a delivery of two different fragments, past a disqualified
\* entry, has returned
C4_Witness ==
    /\ r_mode = "set_requests"
    /\ r_pc = "returned"
    /\ Len(r_posts) = 4
    /\ r_posts[2].body # r_posts[3].body
    /\ r_seen # {}

Failed(i) == r_posts[i].outcome # "2xx"

\* C5: once a callback POST fails (non-2xx status or transport failure) no
\* further POST is issued, and the failure is raised out of set_requests.
C5_PostFailureAborts ==
    \A i \in 1..Len(r_posts) :
        Failed(i) =>
            /\ i = Len(r_posts)
            /\ r_pc = "raised"
            /\ r_err = HttpxError(r_posts[i].outcome)

\* C5 witness: a fragment POST failed while entries were still to come
C5_Witness ==
    /\ r_mode = "set_requests"
    /\ Len(r_posts) = 2
    /\ Failed(2)
    /\ r_di < r_chunk.len
    /\ r_pc = "raised"

AnswerOf(line) == line[2][4][2]

Answers == [i \in 1..Len(r_out) |-> AnswerOf(r_out[i])]

\* C10: the sequence get_stream yields holds exactly one element per entry
\* of a "messages" event that carries content, lacks tool-call metadata and
\* is an AIMessageChunk, in stream order; entries with tool-call metadata
\* and entries of other events yield nothing.
C10_StreamYieldsQualifyingEntries ==
    r_mode = "get_stream" =>
        /\ Len(r_out) = Len(r_expect)
        /\ Answers = r_expect

\* C10 witness: two different fragments were yielded from a stream that also
\* held a content-carrying tool-call entry and a non-"messages" event
C10_Witness ==
    /\ r_mode = "get_stream"
    /\ r_pc = "returned"
    /\ Len(r_out) = 2
    /\ r_out[1] # r_out[2]
    /\ r_seen = {"event", "tool_calls"}

NdjsonLine(fragment) == <<JsonDumps([answer |-> fragment]), "\n">>

\* C11: each element get_stream yields (each line of the /stream_message
\* body) is exactly the single-line JSON object {"answer": <fragment>}
\* followed by one newline, with nothing before the JSON object on the line.
C11_LinesAreNdjson ==
    r_mode = "get_stream" =>
        \A i \in 1..Len(r_out) :
            /\ Len(r_out[i]) = Len(NdjsonLine(r_expect[i]))
            /\ r_out[i] = NdjsonLine(r_expect[i])

\* C12: when the stream completes after at least one snapshot, get_answer
\* returns the content of the last message of the last snapshot, whatever
\* the earlier snapshots held, and /set_message answers with it.
C12_AnswerIsLastOfLast ==
    (r_mode = "get_answer" /\ "exhausted" \in r_seen /\ r_expect # <<>>) =>
        /\ r_err = NoErr
        /\ r_ret = r_expect[Len(r_expect)]
        /\ r_pc = "responded" =>
              r_resp = [status |-> 200,
                        content |-> MessageModel(r_expect[Len(r_expect)],
                                                 RunsThreadId)]

\* C12 witness: get_answer returned after two snapshots that end in
\* different contents, the last one holding two different messages
C12_Witness ==
    /\ r_mode = "get_answer"
    /\ r_pc = "returned"
    /\ Len(r_snaps) = 2
    /\ r_expect[1] # r_expect[2]
    /\ Len(r_snaps[2].messages) = 2
    /\ r_snaps[2].messages[1] # r_snaps[2].messages[2]

StreamRaised == r_err # NoErr /\ "exhausted" \notin r_seen

\* C13: when the stream completes without a snapshot, get_answer raises
\* and returns nothing, and /set_message answers with status 500 and no
\* answer, the status it also answers with when the stream raises.
C13_NoSnapshotFails ==
    r_mode = "get_answer" =>
        /\ ("exhausted" \in r_seen /\ r_expect = <<>>) =>
              /\ r_err # NoErr
              /\ r_ret = None
              /\ r_pc \in {"raised", "responded"}
              /\ r_pc = "responded" =>
                    /\ r_resp.status = 500
                    /\ DOMAIN r_resp.content = {"detail"}
        /\ (StreamRaised /\ r_pc = "responded") => r_resp.status = 500

\* C13 witness: /set_message has answered a run whose stream completed
\* without a snapshot
C13_Witness ==
    /\ r_mode = "get_answer"
    /\ r_pc = "responded"
    /\ "exhausted" \in r_seen
    /\ r_n = 0
    /\ r_resp.status = 500

EndMarkerSent == \E i \in 1..Len(r_posts) : r_posts[i].body = EndMarker

StreamFailed == "stream_raised" \in r_seen

DeliveryOver == r_pc \in {"returned", "raised"}

\* POSTs of the start marker and of the fragments, the end marker left out
EarlierPostsOk ==
    \A i \in 1..Len(r_posts) : r_posts[i].body # EndMarker => ~Failed(i)

\* C21: a webhook delivery over a finite stream whose POSTs all return
\* eventually ends, returned or raised; the end marker is posted only after
\* the start marker POST, every fragment POST and every stream step
\* succeeded, and a delivery that ended without posting it had one of them
\* fail.
C21_DeliveryTerminates ==
    /\ [](r_mode = "set_requests" =>
            /\ EndMarkerSent =>
                  /\ EarlierPostsOk
                  /\ ~StreamFailed
                  /\ Len(r_posts) = Len(r_expect) + 2
                  /\ DeliveryOver
            /\ (DeliveryOver /\ ~EndMarkerSent) =>
                  (StreamFailed \/ ~EarlierPostsOk))
    /\ (r_mode = "set_requests" ~> DeliveryOver)

\* C21 witness: a delivery ended without the end marker because the stream
\* raised after a fragment had been posted
C21_Witness ==
    /\ r_mode = "set_requests"
    /\ r_pc = "raised"
    /\ StreamFailed
    /\ Len(r_posts) = 2
    /\ ~Failed(2)
    /\ ~EndMarkerSent

\* C22: a failure the execution service raises while get_stream or
\* set_requests consumes the answer stream leaves the consumer as an
\* HTTPException with status 500 whose detail carries the original message,
\* and the run is not started again.
C22_StreamFailureWrapped ==
    (r_mode \in {"get_stream", "set_requests"} /\ StreamFailed) =>
        /\ r_pc = "raised"
        /\ r_err[1] = "HTTPException"
        /\ r_err[2] = 500
        /\ \E k \in 1..Len(r_err[3]) : r_err[3][k] = "cause"

\* C23: every failing request ends in a response with status 500 and the
\* body {"detail": <message>}: the detail of the HTTPException raised, or
\* "Internal server error." for any other exception.
C23_FailuresAnswer500 ==
    (r_mode \in {"get_answer", "get_stream"} /\ r_pc = "responded"
       /\ r_err # NoErr) =>
        /\ r_resp.status = 500
        /\ DOMAIN r_resp.content = {"detail"}
        /\ r_resp.content.detail =
              IF r_err[1] = "HTTPException" THEN r_err[3]
              ELSE <<"Internal server error.">>

\* C27: in set_requests the run is started only after the start-marker POST
\* has succeeded; if that POST fails no run is started (the question never
\* reaches the thread) and nothing else is posted or pulled; and whenever
\* the stream is asked for its next element every fragment yielded so far
\* has been POSTed, successfully and in order.
C27_RunAfterStartMarker ==
    r_mode = "set_requests" =>
        /\ r_started => /\ Len(r_posts) >= 1
                         /\ r_posts[1].body = StartMarker
                         /\ ~Failed(1)
        /\ (Len(r_posts) >= 1 /\ Failed(1)) =>
              /\ ~r_started
              /\ r_n = 0
              /\ Len(r_posts) = 1
              /\ r_pc = "raised"
        /\ r_pc \in {"pull", "entry"} =>
              /\ Len(r_posts) = Len(r_expect) + 1
              /\ \A i \in 1..Len(r_posts) : ~Failed(i)
              /\ \A k \in 1..Len(r_expect) :
                    r_posts[k + 1].body = [answer |-> r_expect[k]]
        /\ r_pc = "post_data" => Len(r_posts) = Len(r_expect)

\* C27 witness: the start-marker POST failed and set_requests is over with
\* no run started
C27_Witness ==
    /\ r_mode = "set_requests"
    /\ r_pc = "raised"
    /\ Len(r_posts) = 1
    /\ r_posts[1].body = StartMarker
    /\ Failed(1)
    /\ ~r_started

\* a run request of p asked the service to start a run under an id the
\* service no longer held
RunOnDeleted(p) ==
    \E i \in 1..Len(calls[p]) :
        calls[p][i].kind = "run" /\ calls[p][i].res = NoThread

HasUpdateType(tool_call) == "update_type" \in tool_call.args.has

\* C29: route_message returns END exactly when the last message has no
\* tool calls, returns "update_instructions" exactly when the first tool
\* call of the last message has update_type "INSTRUCTION", raises
\* ValueError for every other update_type, and never names update_profile.
C29_RouteMessage ==
    g_route # NoRoute =>
        LET tcs == g_route.msg.tool_calls IN
        /\ g_pc \in {END, UPDATE_INSTRUCTIONS} =>
              g_route.msg = g_messages[Len(g_messages)]
        /\ (g_route.ret = END) <=> (Len(tcs) = 0)
        /\ (g_route.ret = "update_instructions") <=>
              /\ Len(tcs) > 0
              /\ HasUpdateType(tcs[1])
              /\ tcs[1].args.update_type = "INSTRUCTION"
        /\ (g_route.err = <<"ValueError">>) <=>
              /\ Len(tcs) > 0
              /\ HasUpdateType(tcs[1])
              /\ tcs[1].args.update_type # "INSTRUCTION"
        /\ g_route.err # NoErr => g_route.ret = None
        /\ g_route.ret # UPDATE_PROFILE

\* C29 witness: the first tool call asks for another update type and a
\* later one for "INSTRUCTION": route_message raised ValueError
C29_Witness ==
    /\ g_route.err = <<"ValueError">>
    /\ Len(g_route.msg.tool_calls) = 2
    /\ g_route.msg.tool_calls[1].args.update_type = "PROFILE"
    /\ g_route.msg.tool_calls[2].args.update_type = "INSTRUCTION"

\* the nodes run so far are a prefix of
\* retrieve, qna_chatbot, (update_instructions, qna_chatbot)*
ShapePrefix ==
    \A i \in 1..Len(g_trace) :
        g_trace[i] = IF i = 1 THEN RETRIEVE
                     ELSE IF i % 2 = 0 THEN QNA_CHATBOT
                     ELSE UPDATE_INSTRUCTIONS

NeverProfile ==
    /\ g_pc # UPDATE_PROFILE
    /\ \A i \in 1..Len(g_trace) : g_trace[i] # UPDATE_PROFILE

RunOver == g_pc \in {END, "failed"}

\* the run reached END from a qna_chatbot step whose message has no tool
\* calls
EndedOnPlainAnswer ==
    /\ g_pc = END
    /\ g_err = NoErr
    /\ Len(g_trace) >= 2
    /\ g_trace[Len(g_trace)] = QNA_CHATBOT
    /\ g_messages[Len(g_messages)].type = "ai"
    /\ Len(g_messages[Len(g_messages)].tool_calls) = 0

\* C30 (as claimed): every execution of the compiled graph visits nodes in
\* the shape retrieve, qna_chatbot, (update_instructions, qna_chatbot)*,
\* END: retrieve runs once and first, every update_instructions step is
\* immediately followed by qna_chatbot, update_profile is never executed,
\* and the run ends only when qna_chatbot produced a message without tool
\* calls.
C30_EndsOnlyOnPlainAnswer ==
    /\ ShapePrefix
    /\ NeverProfile
    /\ (Len(g_trace) > 0 /\ g_trace[Len(g_trace)] = UPDATE_INSTRUCTIONS) =>
          g_pc = QNA_CHATBOT
    /\ RunOver => EndedOnPlainAnswer

\* C30 (amended): the nodes an execution runs are a prefix of retrieve,
\* qna_chatbot, (update_instructions, qna_chatbot)*, and update_profile is
\* never scheduled. The run reaches END only from a qna_chatbot step whose
\* message has no tool calls; otherwise it is ended by an exception, of a
\* node or of route_message, and an update_instructions step that does not
\* raise is followed by qna_chatbot.
C30_ShapeOfRuns ==
    /\ ShapePrefix
    /\ NeverProfile
    /\ (Len(g_trace) > 0 /\ g_trace[Len(g_trace)] = UPDATE_INSTRUCTIONS) =>
          g_pc \in {QNA_CHATBOT, "failed"}
    /\ g_pc = END => EndedOnPlainAnswer
    /\ g_pc = "failed" <=> g_err # NoErr

\* C30 witness: a run through retrieve, qna_chatbot, update_instructions
\* and qna_chatbot reached END
C30_Witness ==
    /\ g_pc = END
    /\ g_trace = <<RETRIEVE, QNA_CHATBOT, UPDATE_INSTRUCTIONS, QNA_CHATBOT>>

vars == <<dirVars, msgVars, runVars, graphVars>>

Init == InitDir /\ MsgsIdle /\ RunsIdle /\ GraphIdle

Next ==
    \E p \in Procs :
        \/ StartRequest(p)
        \/ GetThreadSearch(p)
        \/ GetThreadCreate(p)
        \/ RunStart(p)
        \/ RunEnd(p)
        \/ DeleteThreadSearch(p)
        \/ DeleteThreadDelete(p)
        \/ GetThreadsPage(p)
        \/ DeleteThreadsDelete(p)
        \/ Respond(p)

NextSent ==
    \E p \in Procs :
        \/ StartSent(p)
        \/ GetThreadSearch(p)
        \/ GetThreadCreate(p)
        \/ SentMessageReturn(p)
        \/ BgPostStart(p)
        \/ BgRunStart(p)
        \/ BgDeliver(p)
        \/ BgPostEnd(p)
        \/ Respond(p)


InitMsgsRun == InitMsgs /\ RunsIdle /\ GraphIdle

InitList == InitStore /\ MsgsIdle /\ RunsIdle /\ GraphIdle

SpecList == InitList /\ [][Next]_vars

SpecSent == Init /\ [][NextSent]_vars

SpecMsgs == InitMsgsRun /\ [][NextMsgs]_vars

SpecRuns == InitRuns /\ [][NextRuns]_vars

\* the event loop keeps running a task that can take a step
SpecRunsFair == InitRuns /\ [][NextRuns]_vars /\ WF_vars(NextRuns)


\* a run of the compiled graph on a thread's input: one human message
InitGraph ==
    /\ InitDir
    /\ MsgsIdle
    /\ RunsIdle
    /\ g_pc = Edge(START)
    /\ g_messages = <<HumanMessage>>
    /\ g_trace = <<>>
    /\ g_route = NoRoute
    /\ g_err = NoErr

SpecGraph == InitGraph /\ [][NextGraph]_vars

Spec == Init /\ [][Next]_vars

====
